---- MODULE Spec2Model ----
(***************************************************************************)
(* Model of process.py: the Daylio journal model (DaylioJournal, Entry),   *)
(* the How We Feel CSV importer (import_how_we_feel_csv) and the merge     *)
(* orchestrator (merge_journals).                                          *)
(*                                                                         *)
(* Text is modelled as a sequence of one-character strings, so that        *)
(* split / strip / lower / replace are computed character by character.    *)
(* A Python dict is modelled in insertion order: journal.tags and          *)
(* journal.moods are sequences of records with pairwise distinct ids.      *)
(***************************************************************************)
EXTENDS Integers, Sequences, FiniteSets, TLC

----------------------------------------------------------------------------
(* Bounds of the model *)

\* longest CSV body (number of data rows after the header) that is explored
MaxRows == 2
\* number of f.write calls json.dump needs for the merged document
MaxChunks == 2
\* mood ids asked of get_mood_name are 1..MaxMoodId
MaxMoodId == 3

----------------------------------------------------------------------------
(* Text helpers: str.strip, str.split, str.lower, str.replace *)

Whitespace == {" ", "\t", "\n", "\r"}

UpperChars == <<"A","B","C","D","E","F","G","H","I","J","K","L","M",
                "N","O","P","Q","R","S","T","U","V","W","X","Y","Z">>
LowerChars == <<"a","b","c","d","e","f","g","h","i","j","k","l","m",
                "n","o","p","q","r","s","t","u","v","w","x","y","z">>

\* str.lower on one character
LowerChar(c) ==
  IF \E i \in 1..Len(UpperChars) : UpperChars[i] = c
  THEN LowerChars[CHOOSE i \in 1..Len(UpperChars) : UpperChars[i] = c]
  ELSE c

\* str.lower
Lower(s) == [i \in 1..Len(s) |-> LowerChar(s[i])]

\* str.replace(old, new) for a one-character old and new
Replace(s, old, new) == [i \in 1..Len(s) |-> IF s[i] = old THEN new ELSE s[i]]

\* str.strip(): drop leading and trailing whitespace
Strip(s) ==
  LET keep == {i \in 1..Len(s) : s[i] \notin Whitespace}
  IN  IF keep = {} THEN <<>>
      ELSE LET lo == CHOOSE i \in keep : \A j \in keep : i <= j
               hi == CHOOSE i \in keep : \A j \in keep : j <= i
           IN  SubSeq(s, lo, hi)

\* str.split(sep) for a one-character sep: always at least one fragment
RECURSIVE Split(_, _)
Split(s, sep) ==
  IF \A i \in 1..Len(s) : s[i] # sep THEN <<s>>
  ELSE LET k == CHOOSE i \in 1..Len(s) : s[i] = sep /\ \A j \in 1..(i-1) : s[j] # sep
       IN  <<SubSeq(s, 1, k-1)>> \o Split(SubSeq(s, k+1, Len(s)), sep)

\* decimal text of a non-negative integer, as f"{n}" prints it
Digits == <<"0","1","2","3","4","5","6","7","8","9">>
RECURSIVE IntText(_)
IntText(n) == IF n < 10 THEN <<Digits[n+1]>> ELSE IntText(n \div 10) \o <<Digits[(n % 10) + 1]>>

\* the elements of a sequence, and the sequences enumerating a finite set
Range(s) == {s[i] : i \in 1..Len(s)}
Orders(S) == {q \in [1..Cardinality(S) -> S] : Range(q) = S}

----------------------------------------------------------------------------
(* Python dicts in insertion order *)

\* d[rec["id"]] = rec : a new key is appended, an old key keeps its place
DictPut(d, rec) ==
  IF \E i \in 1..Len(d) : d[i].id = rec.id
  THEN [i \in 1..Len(d) |-> IF d[i].id = rec.id THEN rec ELSE d[i]]
  ELSE Append(d, rec)

\* {x["id"]: x for x in list}
RECURSIVE DictFromList(_)
DictFromList(list) ==
  IF Len(list) = 0 THEN <<>>
  ELSE DictPut(DictFromList(SubSeq(list, 1, Len(list) - 1)), list[Len(list)])

\* data.get(key, [])
GetList(data, key) == IF key \in DOMAIN data THEN data[key] ELSE <<>>

Keys(d) == {d[i].id : i \in 1..Len(d)}
HasKey(d, id) == \E i \in 1..Len(d) : d[i].id = id
Lookup(d, id) == d[CHOOSE i \in 1..Len(d) : d[i].id = id]

----------------------------------------------------------------------------
(* DaylioJournal *)

\* a slip: the moods read from a key the document does not have
JournalMoodsWrongKey(data) == DictFromList(GetList(data, "moods"))

\* DaylioJournal.__init__: the three collections built from the document
JournalMoods(data) == DictFromList(GetList(data, "customMoods"))
JournalTags(data) == DictFromList(GetList(data, "tags"))
\* each Entry keeps its raw record as _data; the wrapper adds nothing to it
JournalEntries(data) == GetList(data, "dayEntries")

UnknownMoodPrefix == <<"U","n","k","n","o","w","n"," ","M","o","o","d"," ","I","D"," ","(">>
UnknownTagPrefix == <<"U","n","k","n","o","w","n"," ","T","a","g"," ","I","D"," ","(">>
UnknownMood(id) == UnknownMoodPrefix \o IntText(id) \o <<")">>
UnknownTag(id) == UnknownTagPrefix \o IntText(id) \o <<")">>

Returned(v) == [raised |-> FALSE, value |-> v]
Raised == [raised |-> TRUE, value |-> <<>>]

\* the truth value Python gives mood.get(field): absent and "" are both false
Truthy(rec, field) == field \in DOMAIN rec /\ Len(rec[field]) > 0

\* DaylioJournal.get_mood_name: the conditional expression
\*   A if (mood and A) else mood.get("name", placeholder)
\* and when mood is None its else branch calls None.get, an AttributeError
get_mood_name(moods, mood_id) ==
  IF HasKey(moods, mood_id) /\ Truthy(Lookup(moods, mood_id), "custom_name")
  THEN Returned(Lookup(moods, mood_id).custom_name)
  ELSE IF ~HasKey(moods, mood_id)
       THEN Raised
       ELSE IF "name" \in DOMAIN Lookup(moods, mood_id)
            THEN Returned(Lookup(moods, mood_id).name)
            ELSE Returned(UnknownMood(mood_id))

\* DaylioJournal.get_tag_name
get_tag_name(tags, tag_id) ==
  IF HasKey(tags, tag_id)
  THEN IF "name" \in DOMAIN Lookup(tags, tag_id)
       THEN Lookup(tags, tag_id).name
       ELSE UnknownTag(tag_id)
  ELSE UnknownTag(tag_id)

----------------------------------------------------------------------------
(* import_how_we_feel_csv *)

DEFAULT_TIMEZONE_OFFSET_MS == 2 * 60 * 60 * 1000

TAG_COLUMNS == <<"Tags (People)", "Tags (Places)", "Tags (Events)", "Exercise",
                 "Sleep", "Menstrual", "Steps", "Meditation", "Weather">>

MenstrualTag == <<"M","e","n","s","t","r","u","a","l">>

\* {tag['name']: tag_id for tag_id, tag in journal.tags.items()}: a later tag
\* of the same name overwrites an earlier one
TagNameToId(tags) ==
  [n \in {tags[i].name : i \in 1..Len(tags)} |->
     tags[CHOOSE i \in 1..Len(tags) :
            tags[i].name = n /\ \A j \in (i+1)..Len(tags) : tags[j].name # n].id]

\* a slip: the allocator started from the number of tags
NextTagIdByCount(tags) == Len(tags) + 1

\* max(journal.tags.keys(), default=0) + 1
NextTagId(tags) ==
  IF Len(tags) = 0 THEN 0 + 1
  ELSE (CHOOSE m \in Keys(tags) : \A k \in Keys(tags) : k <= m) + 1

\* {header[i].strip(): value for i, value in enumerate(row) if i < len(header)}
\* (the header cells of the explored files carry no padding)
RowData(header, row) ==
  LET n == IF Len(row) < Len(header) THEN Len(row) ELSE Len(header)
  IN  [name \in {header[i] : i \in 1..n} |->
         row[CHOOSE i \in 1..n : header[i] = name /\ \A j \in (i+1)..n : header[j] # name]]

\* row_data.get(col_name, "")
Cell(row_data, col_name) == IF col_name \in DOMAIN row_data THEN row_data[col_name] ELSE <<>>

\* [t.strip() for t in raw_tag_str.split(';') if t.strip()]
SplitTags(raw_tag_str) ==
  LET parts == Split(raw_tag_str, ";")
  IN  SelectSeq([i \in 1..Len(parts) |-> Strip(parts[i])], LAMBDA t : Len(t) > 0)

\* a slip: the Menstrual cell split like any other column
ColumnTagsAllSplit(col_name, raw_tag_str) ==
  IF Len(raw_tag_str) > 0 THEN SplitTags(raw_tag_str) ELSE <<>>

\* what one tag column adds to non_unique_tags
ColumnTags(col_name, raw_tag_str) ==
  IF col_name = "Menstrual"
  THEN IF Len(raw_tag_str) > 0 THEN <<MenstrualTag>> ELSE <<>>
  ELSE IF Len(raw_tag_str) > 0 THEN SplitTags(raw_tag_str) ELSE <<>>

\* non_unique_tags after the loop over TAG_COLUMNS
RECURSIVE NonUniqueTagsUpTo(_, _)
NonUniqueTagsUpTo(row_data, k) ==
  IF k = 0 THEN <<>>
  ELSE NonUniqueTagsUpTo(row_data, k - 1)
         \o ColumnTags(TAG_COLUMNS[k], Cell(row_data, TAG_COLUMNS[k]))
NonUniqueTags(row_data) == NonUniqueTagsUpTo(row_data, Len(TAG_COLUMNS))

\* set(non_unique_tags)
UniqueTags(row_data) == Range(NonUniqueTags(row_data))

\* a slip: slashes left in the name
DaylioNameKeepSlash(tag_name) == Replace(Lower(tag_name), " ", "-")

\* tag_name.lower().replace(" ", "-").replace("/", "-")
DaylioName(tag_name) == Replace(Replace(Lower(tag_name), " ", "-"), "/", "-")

\* one iteration of "for tag_name in unique_tags", on the importer's tag state
\* st = [tags, tag_name_to_id, next_tag_id, tag_ids]
MapTag(st, tag_name) ==
  LET daylio_name == DaylioName(tag_name)
  IN  IF daylio_name \notin DOMAIN st.tag_name_to_id
      THEN [tags |-> DictPut(st.tags, [id |-> st.next_tag_id, name |-> daylio_name]),
            tag_name_to_id |->
              [n \in DOMAIN st.tag_name_to_id \cup {daylio_name} |->
                 IF n = daylio_name THEN st.next_tag_id ELSE st.tag_name_to_id[n]],
            tag_ids |-> Append(st.tag_ids, st.next_tag_id),
            next_tag_id |-> st.next_tag_id + 1]
      ELSE [st EXCEPT !.tag_ids = Append(st.tag_ids, st.tag_name_to_id[daylio_name])]

\* the whole loop, over unique_tags in the iteration order "order" of the set
RECURSIVE MapTags(_, _)
MapTags(st, order) ==
  IF Len(order) = 0 THEN st
  ELSE MapTag(MapTags(st, SubSeq(order, 1, Len(order) - 1)), order[Len(order)])

\* datetime.strptime(date_str, "%Y %a %b %d %I:%M %p") succeeds; the Date cell
\* is carried tokenised, wellformed saying whether the text has that format
DateParses(date_cell) == date_cell.wellformed

\* the hour of dt_local from %I and %p
Hour24(date_cell) == (date_cell.hour12 % 12) + (IF date_cell.pm THEN 12 ELSE 0)

\* the dayEntry dictionary built for one row
DaylioEntry(row_data, tag_ids, daylio_entries) ==
  [id |-> Len(daylio_entries) + 1,
   minute |-> row_data["Date"].minute,
   hour |-> Hour24(row_data["Date"]),
   day |-> row_data["Date"].day,
   month |-> row_data["Date"].month - 1,
   year |-> row_data["Date"].year,
   datetime |-> [local |-> row_data["Date"], minus_ms |-> DEFAULT_TIMEZONE_OFFSET_MS],
   timeZoneOffset |-> DEFAULT_TIMEZONE_OFFSET_MS,
   mood |-> 1,
   note |-> Strip(Cell(row_data, "Notes")),
   note_title |-> <<>>,
   tags |-> tag_ids,
   assets |-> <<>>,
   isFavorite |-> FALSE]

\* a slip: the row's tags mapped before its date is parsed
LoopBodyTagsFirst(st, header, row, order) ==
  IF Len(row) = 0 THEN st
  ELSE LET row_data == RowData(header, row)
           m == MapTags([tags |-> st.tags,
                         tag_name_to_id |-> st.tag_name_to_id,
                         next_tag_id |-> st.next_tag_id,
                         tag_ids |-> <<>>], order)
           mapped == [st EXCEPT !.tags = m.tags,
                                !.tag_name_to_id = m.tag_name_to_id,
                                !.next_tag_id = m.next_tag_id]
       IN  IF "Date" \notin DOMAIN row_data THEN [st EXCEPT !.raised = TRUE]
           ELSE IF ~DateParses(row_data["Date"])
                THEN [mapped EXCEPT !.skipped = Append(@, row_data["Date"])]
                ELSE IF "Mood" \notin DOMAIN row_data
                     THEN [mapped EXCEPT !.raised = TRUE]
                     ELSE [mapped EXCEPT !.daylio_entries =
                             Append(@, DaylioEntry(row_data, m.tag_ids, st.daylio_entries))]

\* the body of "for row in reader" on the importer's state
\* st = [tags, tag_name_to_id, next_tag_id, daylio_entries, skipped, raised];
\* order is the order in which set(non_unique_tags) happens to iterate
LoopBody(st, header, row, order) ==
  IF Len(row) = 0 THEN st
  ELSE LET row_data == RowData(header, row)
       IN  IF "Date" \notin DOMAIN row_data THEN [st EXCEPT !.raised = TRUE]
           ELSE IF ~DateParses(row_data["Date"])
                THEN [st EXCEPT !.skipped = Append(@, row_data["Date"])]
                ELSE LET m == MapTags([tags |-> st.tags,
                                       tag_name_to_id |-> st.tag_name_to_id,
                                       next_tag_id |-> st.next_tag_id,
                                       tag_ids |-> <<>>], order)
                         mapped == [st EXCEPT !.tags = m.tags,
                                              !.tag_name_to_id = m.tag_name_to_id,
                                              !.next_tag_id = m.next_tag_id]
                     IN  IF "Mood" \notin DOMAIN row_data
                         THEN [mapped EXCEPT !.raised = TRUE]
                         ELSE [mapped EXCEPT !.daylio_entries =
                                 Append(@, DaylioEntry(row_data, m.tag_ids, st.daylio_entries))]

\* the iteration orders the set of a row's tags can take
RowOrders(header, row) ==
  IF Len(row) = 0 THEN {<<>>} ELSE Orders(UniqueTags(RowData(header, row)))

----------------------------------------------------------------------------
(* merge_journals: steps 4 to 6 *)

\* a slip: ids numbered from 0
RenumberFromZero(all_entries) ==
  [i \in 1..Len(all_entries) |-> [all_entries[i] EXCEPT !.id = i - 1]]

\* entry_dict["id"] = i + 1 for i, entry_dict in enumerate(all_entries)
Renumber(all_entries) == [i \in 1..Len(all_entries) |-> [all_entries[i] EXCEPT !.id = i]]

ReplacedKeys == {"dayEntries", "tags", "customMoods"}

\* a slip: the document rebuilt from the three fields alone
MergedDataFresh(data, all_entries, tags, moods) ==
  [dayEntries |-> all_entries, tags |-> tags, customMoods |-> moods]

\* daylio_data.copy() with the three fields assigned
MergedData(data, all_entries, tags, moods) ==
  [k \in DOMAIN data \cup ReplacedKeys |->
     IF k = "dayEntries" THEN all_entries
     ELSE IF k = "tags" THEN tags
     ELSE IF k = "customMoods" THEN moods
     ELSE data[k]]

----------------------------------------------------------------------------
(* The files a run is given *)

Header == <<"Date", "Mood", "Notes">> \o TAG_COLUMNS

GoodDate == [wellformed |-> TRUE, year |-> 2025, month |-> 10, day |-> 4,
             hour12 |-> 8, minute |-> 9, pm |-> TRUE]
\* a Date cell in another format, e.g. ISO text: strptime raises ValueError
BadDate == [wellformed |-> FALSE, year |-> 2025, month |-> 10, day |-> 4,
            hour12 |-> 20, minute |-> 9, pm |-> FALSE]

\* a full-width row: the cells of Date, Mood, Notes, People, Places, Events and
\* Menstrual as given, the other tag columns empty
Row(date, notes, people, places, events, menstrual) ==
  <<date, <<"O","k">>, notes, people, places, events, <<>>, <<>>, menstrual, <<>>, <<>>, <<>>>>

FriendsCell == <<"F","r","i","e","n","d"," ","A",";"," ","F","r","i","e","n","d"," ","B",";"," "," ">>

RowFriends == Row(GoodDate, <<" ","n","1"," ">>, FriendsCell, <<>>, <<>>, <<>>)
RowMensX == Row(GoodDate, <<"n","2">>, <<>>, <<>>, <<>>, <<"X">>)
RowMensYes == Row(GoodDate, <<"n","3">>, <<>>, <<"w","o","r","k">>, <<" ",";"," ">>, <<"y","e","s">>)
RowBadDate == Row(BadDate, <<"n","4">>, <<"Z","e","d">>, <<>>, <<>>, <<"X">>)
RowCollide == Row(GoodDate, <<"n","5">>, <<"A"," ","b",";","a","/","b">>, <<>>, <<>>, <<>>)
RowEmpty == <<>>
\* a row cut short after its Date cell: row_data has no "Mood"
RowShort == <<GoodDate>>

RowKinds == {RowFriends, RowMensX, RowMensYes, RowBadDate, RowCollide, RowEmpty, RowShort}

Bodies == UNION {[1..n -> RowKinds] : n \in 0..MaxRows}

CsvFiles == {[status |-> "missing", header |-> Header, rows |-> <<>>]}
              \cup {[status |-> "ok", header |-> Header, rows |-> b] : b \in Bodies}

PrimaryEntry(id, mood, note, tags) ==
  [id |-> id, minute |-> 30, hour |-> 7, day |-> 1, month |-> 0, year |-> 2024,
   datetime |-> 17040, timeZoneOffset |-> 3600000, mood |-> mood, note |-> note, tags |-> tags]

\* a document with every field, an unrecognised one ("prefs") included; entry
\* ids are not contiguous, tag ids are not dense
DocFull ==
  [version |-> 15, isReminderOn |-> TRUE, prefs |-> <<"dark">>,
   customMoods |-> <<[id |-> 1, name |-> <<>>, custom_name |-> <<"R","a","d">>],
                     [id |-> 3, name |-> <<"m","e","h">>]>>,
   tags |-> <<[id |-> 5, name |-> <<"w","o","r","k">>, icon |-> 7],
              [id |-> 2, name |-> <<"f","r","i","e","n","d","-","a">>, icon |-> 9]>>,
   dayEntries |-> <<PrimaryEntry(7, 1, <<"a">>, <<5>>), PrimaryEntry(7, 9, <<>>, <<2, 5>>)>>]

\* a document without customMoods, whose one tag is already "menstrual"
DocMens ==
  [version |-> 15,
   tags |-> <<[id |-> 1, name |-> <<"m","e","n","s","t","r","u","a","l">>]>>,
   dayEntries |-> <<PrimaryEntry(1, 2, <<"b">>, <<1>>)>>]

\* a document with none of the three lists
DocBare == [version |-> 15]

PrimaryDocs == {DocFull, DocMens, DocBare}

PrimaryFiles == {[status |-> "missing", doc |-> <<>>], [status |-> "undecodable", doc |-> <<>>]}
                  \cup {[status |-> "ok", doc |-> d] : d \in PrimaryDocs}

\* the output path before the run: nothing there, or an earlier file
OutAbsent == [exists |-> FALSE, holds |-> "nothing", written |-> 0, closed |-> TRUE]
OutPrior == [exists |-> TRUE, holds |-> "prior", written |-> 0, closed |-> TRUE]

None == <<>>

\* the Mood tables get_mood_name is asked about: each id below MaxMoodId is
\* absent or present with any combination of absent, empty and non-empty names
MoodNames == {<<>>, <<"o","k">>}
MoodCustomNames == {<<>>, <<"R","a","d">>}
MoodRecords(id) ==
  {[id |-> id]}
    \cup {[id |-> id, name |-> n] : n \in MoodNames}
    \cup {[id |-> id, custom_name |-> c] : c \in MoodCustomNames}
    \cup {[id |-> id, name |-> n, custom_name |-> c] : n \in MoodNames, c \in MoodCustomNames}
RECURSIVE MoodLists(_)
MoodLists(n) ==
  IF n = 0 THEN {<<>>}
  ELSE MoodLists(n - 1) \cup {Append(l, m) : l \in MoodLists(n - 1), m \in MoodRecords(n)}

----------------------------------------------------------------------------
(* State *)

VARIABLES
  pc,              \* where the run is
  primary_file,    \* the file at daylio_json_path
  csv_file,        \* the file at hwf_csv_path
  out_file,        \* the file at output_path
  out_before,      \* the file at output_path when the run began
  daylio_data,     \* the decoded primary document
  moods,           \* journal.moods
  tags,            \* journal.tags
  entries,         \* journal.entries, each as its _data
  tag_name_to_id,  \* the importer's reverse lookup
  next_tag_id,     \* the importer's id allocator
  daylio_entries,  \* the importer's result so far
  skipped,         \* Date cells reported as unparseable
  row_idx,         \* the reader's position in the CSV body
  merged_data,     \* the document to be written
  mood_id,         \* the argument of a get_mood_name call
  result           \* what the call gave

vars == <<pc, primary_file, csv_file, out_file, out_before, daylio_data, moods, tags,
          entries, tag_name_to_id, next_tag_id, daylio_entries, skipped, row_idx,
          merged_data, mood_id, result>>

files == <<primary_file, csv_file, out_before>>
journal == <<daylio_data, moods, tags, entries>>
importer == <<tag_name_to_id, next_tag_id, daylio_entries, skipped, row_idx>>
lookup == <<mood_id, result>>

Init ==
  /\ pc = "start"
  /\ primary_file \in PrimaryFiles
  /\ csv_file \in CsvFiles
  /\ out_file \in {OutAbsent, OutPrior}
  /\ out_before = out_file
  /\ daylio_data = None /\ moods = None /\ tags = None /\ entries = None
  /\ tag_name_to_id = None /\ next_tag_id = 0 /\ daylio_entries = None
  /\ skipped = <<>> /\ row_idx = 0
  /\ merged_data = None
  /\ mood_id = 0 /\ result = None

\* step 1: open and decode the primary file, build the journal
LoadPrimary ==
  /\ pc = "start"
  /\ IF primary_file.status # "ok"
     THEN /\ pc' = "aborted"
          /\ UNCHANGED journal
     ELSE /\ daylio_data' = primary_file.doc
          /\ moods' = JournalMoods(primary_file.doc)
          /\ tags' = JournalTags(primary_file.doc)
          /\ entries' = JournalEntries(primary_file.doc)
          /\ pc' = "read_csv"
  /\ UNCHANGED <<files, out_file, importer, merged_data, lookup>>

\* step 2: read the CSV text; then the importer's setup before its row loop
ReadCsv ==
  /\ pc = "read_csv"
  /\ IF csv_file.status # "ok"
     THEN /\ pc' = "aborted"
          /\ UNCHANGED importer
     ELSE /\ tag_name_to_id' = TagNameToId(tags)
          /\ next_tag_id' = NextTagId(tags)
          /\ daylio_entries' = <<>>
          /\ row_idx' = 1
          /\ UNCHANGED skipped
          /\ pc' = "import"
  /\ UNCHANGED <<files, out_file, journal, merged_data, lookup>>

\* step 3: one iteration of the importer's row loop
ImportRow ==
  /\ pc = "import"
  /\ row_idx <= Len(csv_file.rows)
  /\ \E order \in RowOrders(csv_file.header, csv_file.rows[row_idx]) :
       LET st == LoopBody([tags |-> tags, tag_name_to_id |-> tag_name_to_id,
                           next_tag_id |-> next_tag_id, daylio_entries |-> daylio_entries,
                           skipped |-> skipped, raised |-> FALSE],
                          csv_file.header, csv_file.rows[row_idx], order)
       IN  /\ tags' = st.tags
           /\ tag_name_to_id' = st.tag_name_to_id
           /\ next_tag_id' = st.next_tag_id
           /\ daylio_entries' = st.daylio_entries
           /\ skipped' = st.skipped
           /\ pc' = IF st.raised THEN "crashed" ELSE "import"
  /\ row_idx' = row_idx + 1
  /\ UNCHANGED <<files, out_file, daylio_data, moods, entries, merged_data, lookup>>

\* steps 4 to 6: concatenate, renumber, rebuild the document
Combine ==
  /\ pc = "import"
  /\ row_idx > Len(csv_file.rows)
  /\ merged_data' = MergedData(daylio_data, Renumber(entries \o daylio_entries), tags, moods)
  /\ pc' = "open"
  /\ UNCHANGED <<files, out_file, journal, importer, lookup>>

\* step 7: open(output_path, "w") creates or truncates the file, or raises
OpenOutput ==
  /\ pc = "open"
  /\ \E opened \in BOOLEAN :
       IF opened
       THEN /\ out_file' = [exists |-> TRUE, holds |-> "merged", written |-> 0, closed |-> FALSE]
            /\ pc' = "dump"
       ELSE /\ UNCHANGED out_file
            /\ pc' = "failed"
  /\ UNCHANGED <<files, journal, importer, merged_data, lookup>>

\* step 7: json.dump writes the document piece by piece; a write may raise
DumpChunk ==
  /\ pc = "dump"
  /\ out_file.written < MaxChunks
  /\ \E wrote \in BOOLEAN :
       IF wrote
       THEN /\ out_file' = [out_file EXCEPT !.written = @ + 1]
            /\ pc' = "dump"
       ELSE /\ out_file' = [out_file EXCEPT !.closed = TRUE]
            /\ pc' = "failed"
  /\ UNCHANGED <<files, journal, importer, merged_data, lookup>>

\* step 7: the with block ends after the last piece
CloseOutput ==
  /\ pc = "dump"
  /\ out_file.written = MaxChunks
  /\ out_file' = [out_file EXCEPT !.closed = TRUE]
  /\ pc' = "done"
  /\ UNCHANGED <<files, journal, importer, merged_data, lookup>>

Next == LoadPrimary \/ ReadCsv \/ ImportRow \/ Combine \/ OpenOutput \/ DumpChunk \/ CloseOutput

Spec == Init /\ [][Next]_vars

----------------------------------------------------------------------------
(* Name lookups on a journal *)

InitLookup ==
  /\ pc = "lookup"
  /\ moods \in {DictFromList(l) : l \in MoodLists(MaxMoodId - 1)}
  /\ mood_id \in 1..MaxMoodId
  /\ result = None
  /\ primary_file = None /\ csv_file = None /\ out_file = OutAbsent /\ out_before = OutAbsent
  /\ daylio_data = None /\ tags = <<>> /\ entries = <<>>
  /\ tag_name_to_id = None /\ next_tag_id = 0 /\ daylio_entries = None
  /\ skipped = <<>> /\ row_idx = 0
  /\ merged_data = None

GetMoodName ==
  /\ pc = "lookup"
  /\ result' = get_mood_name(moods, mood_id)
  /\ pc' = "returned"
  /\ UNCHANGED <<files, out_file, journal, importer, merged_data, mood_id>>

NextLookup == GetMoodName

SpecLookup == InitLookup /\ [][NextLookup]_vars

----------------------------------------------------------------------------
(* What the properties below are stated with *)

\* the importer has been set up (and may have finished, or raised)
AfterSetup == pc \in {"import", "crashed", "open", "dump", "done", "failed"}
\* merged_data has been built
AfterCombine == pc \in {"open", "dump", "done", "failed"}

Doc == primary_file.doc
WithoutId(r) == [k \in DOMAIN r \ {"id"} |-> r[k]]

\* the rows that yield a record: not empty, Date in the format, Mood present
Yields(row) == Len(row) >= 2 /\ row[1].wellformed
\* the rows reported and skipped
IsSkipped(row) == Len(row) >= 1 /\ ~row[1].wellformed
RowsDone == SubSeq(csv_file.rows, 1, row_idx - 1)
YieldingDone == SelectSeq(RowsDone, Yields)

CellOf(row, col_name) == row[CHOOSE i \in 1..Len(Header) : Header[i] = col_name]
SplitColumns == Range(TAG_COLUMNS) \ {"Menstrual"}

\* the fragments of a cell, stated without the code's split and strip: the
\* stretches between two ';' (or the cell's ends) less the whitespace around them
ExpectedFragments(c) ==
  {SubSeq(c, p[1], p[2]) : p \in
     {q \in (1..Len(c)) \X (1..Len(c)) :
        /\ q[1] <= q[2]
        /\ c[q[1]] \notin Whitespace /\ c[q[2]] \notin Whitespace
        /\ \A k \in q[1]..q[2] : c[k] # ";"
        /\ \E i \in 1..q[1] : /\ (i = 1 \/ c[i-1] = ";")
                              /\ \A k \in i..(q[1]-1) : c[k] \in Whitespace
        /\ \E j \in q[2]..Len(c) : /\ (j = Len(c) \/ c[j+1] = ";")
                                   /\ \A k \in (q[2]+1)..j : c[k] \in Whitespace}}

\* the canonical tag name of a fragment
ExpectedName(f) == [i \in 1..Len(f) |-> IF f[i] \in {" ", "/"} THEN "-" ELSE LowerChar(f[i])]

RowFragments(row) == UNION {ExpectedFragments(CellOf(row, c)) : c \in SplitColumns}
HasMenstrual(row) == Len(CellOf(row, "Menstrual")) > 0
MenstrualName == <<"m","e","n","s","t","r","u","a","l">>
ExpectedRowNames(row) ==
  {ExpectedName(f) : f \in RowFragments(row)}
    \cup (IF HasMenstrual(row) THEN {MenstrualName} ELSE {})

\* the names a record's tag ids resolve to
TagNames(rec) == {get_tag_name(tags, rec.tags[i]) : i \in 1..Len(rec.tags)}

MaxOf(S) == CHOOSE m \in S : \A k \in S : k <= m
PrimaryTags == GetList(Doc, "tags")
PrimaryMaxTagId == IF Len(PrimaryTags) = 0 THEN 0 ELSE MaxOf(Keys(PrimaryTags))

----------------------------------------------------------------------------
(* Properties *)

\* C1: after a successful run with P primary entries and S imported records
\* the written dayEntries has P + S records with ids 1, 2, ..., P + S in list
\* order; the first P are the primary records in their order and the last S
\* the imported records in CSV row order (ids apart).
C1_EntryIdsRenumbered ==
  pc = "done" =>
    LET out == merged_data.dayEntries
        prim == GetList(Doc, "dayEntries")
        rows == SelectSeq(csv_file.rows, Yields)
        P == Len(prim)
        S == Len(rows)
    IN  /\ Len(out) = P + S
        /\ \A i \in 1..Len(out) : out[i].id = i
        /\ \A i \in 1..P : WithoutId(out[i]) = WithoutId(prim[i])
        /\ \A j \in 1..S :
             /\ WithoutId(out[P + j]) = WithoutId(daylio_entries[j])
             /\ out[P + j].note = Strip(CellOf(rows[j], "Notes"))
             /\ out[P + j].mood = 1 /\ out[P + j].timeZoneOffset = 7200000

\* C1 witness: a finished run with two primary entries whose ids were not
\* 1, 2, two imported rows of different kinds and a skipped row before them
C1_Witness ==
  /\ pc = "done"
  /\ Len(GetList(Doc, "dayEntries")) = 2
  /\ Doc.dayEntries[1].id = 7
  /\ Len(csv_file.rows) >= 2
  /\ Len(daylio_entries) >= 1
  /\ Len(skipped) + Len(daylio_entries) >= 2
  /\ merged_data.dayEntries[3].id = 3

\* C2: after the importer has processed any rows, the tag table's ids are
\* pairwise distinct, every tag of the primary table is still there unchanged,
\* and the k new tags carry the ids max+1, ..., max+k in order of creation
\* (max taken over the primary ids, 0 when there are none).
C2_TagIdsConsecutive ==
  AfterSetup =>
    LET n0 == Len(PrimaryTags)
    IN  /\ \A i, j \in 1..Len(tags) : i # j => tags[i].id # tags[j].id
        /\ Len(tags) >= n0
        /\ \A i \in 1..n0 : tags[i] = PrimaryTags[i]
        /\ \A j \in 1..(Len(tags) - n0) : tags[n0 + j].id = PrimaryMaxTagId + j
        /\ next_tag_id = PrimaryMaxTagId + (Len(tags) - n0) + 1

\* C2 witness: two tags created on top of a primary table whose ids are 5, 2
C2_Witness ==
  /\ pc = "done"
  /\ Len(PrimaryTags) = 2
  /\ PrimaryMaxTagId = 5
  /\ Len(tags) >= 4
  /\ tags[3].id = 6 /\ tags[4].id = 7

\* the name the Mood table documents for an id: custom_name when the mood is
\* there and has a non-empty one, else its non-empty name, else the placeholder
DocumentedMoodName(table, id) ==
  IF HasKey(table, id) /\ Truthy(Lookup(table, id), "custom_name")
  THEN Lookup(table, id).custom_name
  ELSE IF HasKey(table, id) /\ Truthy(Lookup(table, id), "name")
       THEN Lookup(table, id).name
       ELSE <<"U","n","k","n","o","w","n"," ","M","o","o","d"," ","I","D"," ","(">>
              \o IntText(id) \o <<")">>

\* C3: for every mood id and Mood table, get_mood_name never raises and gives
\* the custom_name if the id is present with a non-empty one, else the name if
\* non-empty, else exactly "Unknown Mood ID (<id>)" (id not in the table, or
\* both names empty or absent).
C3_MoodNameNeverRaises ==
  pc = "returned" =>
    /\ ~result.raised
    /\ result.value = DocumentedMoodName(moods, mood_id)

\* C4: a row whose Date does not parse is skipped and the import goes on; the
\* row yields no record, takes no entry id, adds no tag and advances no tag
\* id, and the tags of the written document come from the primary table or
\* from rows that were not skipped.
C4_SkippedRowStep ==
  (pc = "import" /\ row_idx <= Len(csv_file.rows) /\ IsSkipped(csv_file.rows[row_idx]))
    => /\ pc' = "import"
       /\ row_idx' = row_idx + 1
       /\ tags' = tags
       /\ next_tag_id' = next_tag_id
       /\ tag_name_to_id' = tag_name_to_id
       /\ daylio_entries' = daylio_entries
       /\ skipped' = Append(skipped, csv_file.rows[row_idx][1])
C4_NoTraceAtEnd ==
  pc = "open" =>
    LET kept == SelectSeq(csv_file.rows, Yields)
        names == UNION {ExpectedRowNames(kept[j]) : j \in 1..Len(kept)}
    IN  /\ Len(daylio_entries) = Len(kept)
        /\ \A j \in 1..Len(kept) :
             /\ daylio_entries[j].id = j
             /\ daylio_entries[j].note = Strip(CellOf(kept[j], "Notes"))
        /\ Len(merged_data.dayEntries) = Len(GetList(Doc, "dayEntries")) + Len(kept)
        /\ \A i \in 1..Len(merged_data.tags) :
             \/ \E k \in 1..Len(PrimaryTags) : PrimaryTags[k] = merged_data.tags[i]
             \/ merged_data.tags[i].name \in names
C4_SkippedRowLeavesNoTrace == [][C4_SkippedRowStep /\ C4_NoTraceAtEnd']_vars

\* C4 witness: the first row was skipped, a later row was imported, and the
\* tag "zed", named only in the skipped row, is not in the table
C4_Witness ==
  /\ pc = "done"
  /\ Len(csv_file.rows) >= 2
  /\ csv_file.rows[1] = RowBadDate
  /\ Len(skipped) = 1
  /\ Len(daylio_entries) >= 1
  /\ \A i \in 1..Len(tags) : tags[i].name # <<"z","e","d">>

\* the output path holds the whole merged document
OutComplete == out_file.exists /\ out_file.holds = "merged"
                 /\ out_file.written = MaxChunks /\ out_file.closed

\* C5: every run leaves the output file either holding the complete merged
\* document or exactly as it was before the run; a failed write persists no
\* partial document and neither deletes nor truncates an earlier file.
C5_OutputAllOrNothing ==
  pc \in {"done", "aborted", "failed", "crashed"} => (OutComplete \/ out_file = out_before)

\* C10: the tags list of every imported record holds pairwise distinct ids,
\* each of them in the journal's tag table, also when two candidate names of
\* a row normalise to the same tag name.
C10_RecordTagIdsDistinct ==
  AfterSetup =>
    \A j \in 1..Len(daylio_entries) :
      LET t == daylio_entries[j].tags
      IN  /\ \A a, b \in 1..Len(t) : a # b => t[a] # t[b]
          /\ \A a \in 1..Len(t) : HasKey(tags, t[a])

\* a finished run on a CSV that has its header and no data row
HeaderOnlyDone == pc = "done" /\ Len(csv_file.rows) = 0

\* the entries of the primary document come out in order, ids 1..N, every
\* other field as it was; the tag records and the mood records are the primary's
RoundTripLists ==
  LET prim == GetList(Doc, "dayEntries")
  IN  /\ Len(merged_data.dayEntries) = Len(prim)
      /\ \A i \in 1..Len(prim) :
           /\ merged_data.dayEntries[i].id = i
           /\ WithoutId(merged_data.dayEntries[i]) = WithoutId(prim[i])
      /\ Range(merged_data.tags) = Range(GetList(Doc, "tags"))
      /\ Len(merged_data.tags) = Len(GetList(Doc, "tags"))
      /\ merged_data.customMoods = GetList(Doc, "customMoods")
      /\ \A k \in DOMAIN Doc \ ReplacedKeys : merged_data[k] = Doc[k]

\* C6 as stated: merging any primary document with a header-only CSV gives a
\* document with the same top-level keys, the same entries renumbered 1..N and
\* the same tag and mood records.
C6_RoundTripSameKeys ==
  HeaderOnlyDone => (DOMAIN merged_data = DOMAIN Doc /\ RoundTripLists)

\* C6 as amended: the output's top-level keys are the primary's together with
\* dayEntries, tags and customMoods, a list the primary lacks being written as
\* an empty list; the rest as stated.
C6_RoundTrip ==
  HeaderOnlyDone => (DOMAIN merged_data = DOMAIN Doc \cup ReplacedKeys /\ RoundTripLists)

\* C6 witness: a header-only merge of a document that has entries and tags to
\* carry over and no customMoods
C6_Witness ==
  /\ HeaderOnlyDone
  /\ "customMoods" \notin DOMAIN Doc
  /\ Len(GetList(Doc, "dayEntries")) >= 1
  /\ Len(GetList(Doc, "tags")) >= 1

\* C7: the written document differs from the primary in the top-level fields
\* dayEntries, tags and customMoods only: every other field of the primary is
\* there with its value, no other field is added, and the mood list is the
\* primary's, whatever the CSV holds.
C7_OnlyThreeFieldsReplaced ==
  AfterCombine =>
    /\ \A k \in DOMAIN Doc \ ReplacedKeys : k \in DOMAIN merged_data /\ merged_data[k] = Doc[k]
    /\ DOMAIN merged_data \ DOMAIN Doc \subseteq ReplacedKeys
    /\ merged_data.customMoods = GetList(Doc, "customMoods")
    /\ moods = GetList(Doc, "customMoods")

\* C7 witness: a finished merge of the document with an unrecognised field,
\* with records imported and tags created
C7_Witness ==
  /\ pc = "done"
  /\ "prefs" \in DOMAIN Doc
  /\ Len(daylio_entries) >= 1
  /\ Len(tags) > Len(PrimaryTags)
  /\ Len(moods) = 2

\* C8: each cell of a tag column other than Menstrual gives one tag per
\* distinct fragment that is non-empty after trimming, named by the fragment
\* lower-cased with spaces and slashes made hyphens; the cell
\* "Friend A; Friend B;  " gives exactly "friend-a" and "friend-b".
C8_SplitCells ==
  AfterSetup =>
    \A j \in 1..Len(daylio_entries) :
      LET row == YieldingDone[j]
          rec == daylio_entries[j]
      IN  /\ TagNames(rec) = ExpectedRowNames(row)
          /\ Len(rec.tags) = Cardinality(RowFragments(row)) + (IF HasMenstrual(row) THEN 1 ELSE 0)
          /\ row = RowFriends =>
               /\ Len(rec.tags) = 2
               /\ TagNames(rec) = {<<"f","r","i","e","n","d","-","a">>,
                                   <<"f","r","i","e","n","d","-","b">>}

\* C8 witness: the example row was imported, and so was a row with a slash
C8_Witness ==
  /\ AfterSetup
  /\ Len(daylio_entries) = 2
  /\ YieldingDone[1] = RowFriends
  /\ YieldingDone[2] = RowCollide

\* positions of a record's tag list that resolve to "menstrual"
MenstrualAt(rec) == {i \in 1..Len(rec.tags) : get_tag_name(tags, rec.tags[i]) = MenstrualName}

\* C9: a row with a non-empty Menstrual cell gets exactly one tag named
\* "menstrual" from it, the same tag id whatever the cell holds, and one tag
\* record serves all such rows; a row with an empty cell gets none from it.
C9_MenstrualColumn ==
  AfterSetup =>
    /\ \A j \in 1..Len(daylio_entries) :
         LET row == YieldingDone[j]
             rec == daylio_entries[j]
         IN  MenstrualName \notin {ExpectedName(f) : f \in RowFragments(row)} =>
               Cardinality(MenstrualAt(rec)) = (IF HasMenstrual(row) THEN 1 ELSE 0)
    /\ \A j, k \in 1..Len(daylio_entries) :
         (HasMenstrual(YieldingDone[j]) /\ HasMenstrual(YieldingDone[k])) =>
           \E id \in Keys(tags) :
             /\ \E a \in 1..Len(daylio_entries[j].tags) : daylio_entries[j].tags[a] = id
             /\ \E b \in 1..Len(daylio_entries[k].tags) : daylio_entries[k].tags[b] = id
             /\ get_tag_name(tags, id) = MenstrualName
    /\ Cardinality({i \in 1..Len(tags) : tags[i].name = MenstrualName}) <= 1

\* C9 witness: a row with cell "X" and a row with cell "yes" were imported
C9_Witness ==
  /\ AfterSetup
  /\ Len(daylio_entries) = 2
  /\ YieldingDone[1] = RowMensX
  /\ YieldingDone[2] = RowMensYes
  /\ daylio_entries[1].tags = <<next_tag_id - 1>>

====
